---- MODULE Spec2Model ----
(***************************************************************************)
(* Model of version_updater.py: a batch runner that, for every configured *)
(* repository, compares the version in a local file name with the latest  *)
(* release tag and downloads / replaces the local file when it is older.   *)
(*                                                                         *)
(* Text is modelled as sequences of one-character strings so that          *)
(* stripping, regular-expression search and version parsing are computed   *)
(* character by character.                                                 *)
(***************************************************************************)
EXTENDS Integers, Sequences, FiniteSets, TLC

----------------------------------------------------------------------------
(* Text helpers *)

\* Python's None for text, match and version results (the empty tuple)
None == <<>>

Digits == <<"0", "1", "2", "3", "4", "5", "6", "7", "8", "9">>

IsDigit(c) == \E i \in 1..10 : Digits[i] = c

DigitVal(c) == (CHOOSE i \in 1..10 : Digits[i] = c) - 1

AllDigits(s) == \A i \in 1..Len(s) : IsDigit(s[i])

\* Op applied to the value of x: the argument is evaluated once, before Op
\* (as a Python call evaluates its arguments)
ByValue(Op(_), x) == CHOOSE r \in {Op(v) : v \in {x}} : TRUE

ByValue2(Op(_, _), x, y) == CHOOSE r \in {Op(v, w) : v \in {x}, w \in {y}} : TRUE

\* int(s) for a non-empty run of decimal digits
RECURSIVE ToInt(_)
ToIntStep(s) ==
    IF Len(s) = 0 THEN 0
    ELSE 10 * ToInt(SubSeq(s, 1, Len(s) - 1)) + DigitVal(s[Len(s)])

ToInt(s) == ByValue(ToIntStep, s)

\* s[i..] (Python slice s[i-1:])
From(s, i) == SubSeq(s, i, Len(s))

StartsWithAt(s, i, p) ==
    /\ i + Len(p) - 1 <= Len(s)
    /\ SubSeq(s, i, i + Len(p) - 1) = p

\* str.lstrip(chars) for a one-character argument: every leading occurrence
\* of the character is removed.
RECURSIVE LStrip(_, _)
LStrip(s, c) ==
    IF Len(s) > 0 /\ s[1] = c THEN LStrip(Tail(s), c) ELSE s

\* os.path.basename: the part after the last "/"
RECURSIVE Basename(_)
Basename(p) ==
    IF \E i \in 1..Len(p) : p[i] = "/"
    THEN Basename(From(p, (CHOOSE i \in 1..Len(p) : p[i] = "/") + 1))
    ELSE p

----------------------------------------------------------------------------
(* packaging.version: parse and compare (release segments and pre-release) *)

\* [0-9]+(\.[0-9]+)*
IsRelease(t) ==
    /\ Len(t) > 0
    /\ \A i \in 1..Len(t) : IsDigit(t[i]) \/ t[i] = "."
    /\ IsDigit(t[1]) /\ IsDigit(t[Len(t)])
    /\ \A i \in 1..(Len(t) - 1) : ~(t[i] = "." /\ t[i + 1] = ".")

\* the numeric segments of a release, split on "."
RECURSIVE Segments(_)
SegmentsStep(t) ==
    IF \E i \in 1..Len(t) : t[i] = "."
    THEN LET d == CHOOSE i \in 1..Len(t) :
                      t[i] = "." /\ \A j \in 1..(i - 1) : t[j] # "."
         IN  <<ToInt(SubSeq(t, 1, d - 1))>> \o Segments(From(t, d + 1))
    ELSE <<ToInt(t)>>

Segments(t) == ByValue(SegmentsStep, t)

\* the release key drops trailing zero segments (1.0 == 1.0.0)
RECURSIVE TrimZeros(_)
TrimZerosStep(r) ==
    IF Len(r) > 0 /\ r[Len(r)] = 0 THEN TrimZeros(SubSeq(r, 1, Len(r) - 1)) ELSE r

TrimZeros(r) == ByValue(TrimZerosStep, r)

PreSeps == {"-", "_", "."}

PreWords == << <<"a">>, <<"b">>, <<"r", "c">> >>

NoPre == <<4, 0>>

\* [-_.]?(a|b|rc)[-_.]?[0-9]*  ->  <<rank of the word, number>>, or None
PreOf(t) ==
    LET u == IF Len(t) > 0 /\ t[1] \in PreSeps THEN Tail(t) ELSE t
        hits == {w \in 1..3 : StartsWithAt(u, 1, PreWords[w])}
    IN  IF hits = {} THEN None
        ELSE LET w == CHOOSE x \in hits : TRUE
                 r == From(u, Len(PreWords[w]) + 1)
                 n == IF Len(r) > 0 /\ r[1] \in PreSeps THEN Tail(r) ELSE r
             IN  IF AllDigits(n) THEN <<w, ToInt(n)>> ELSE None

\* version.parse: <<the comparison key of the version string>>, or None when
\* the string is not a version (InvalidVersion is raised)
ParseVersionOf(s) ==
    LET b == IF Len(s) > 0 /\ s[1] = "v" THEN Tail(s) ELSE s
        cuts == {k \in 1..Len(b) :
                    /\ IsRelease(SubSeq(b, 1, k))
                    /\ (k = Len(b) \/ PreOf(From(b, k + 1)) # None)}
    IN  IF cuts = {} THEN None
        ELSE LET k == CHOOSE x \in cuts : TRUE
             IN  <<[release |-> TrimZeros(Segments(SubSeq(b, 1, k))),
                    pre |-> IF k = Len(b) THEN NoPre ELSE PreOf(From(b, k + 1))]>>

ParseVersion(s) == ByValue(ParseVersionOf, s)

Min(a, b) == IF a < b THEN a ELSE b

\* tuple comparison of two integer sequences, as Python compares tuples
TupleLess(x, y) ==
    \/ \E i \in 1..Min(Len(x), Len(y)) :
          /\ x[i] < y[i]
          /\ \A j \in 1..(i - 1) : x[j] = y[j]
    \/ /\ Len(x) < Len(y)
       /\ \A j \in 1..Len(x) : x[j] = y[j]

\* a comparison that ignores the pre-release part
VersionLessReleaseOnly(a, b) == TupleLess(a.release, b.release)

\* Version.__lt__ / __eq__ / __le__ on the comparison keys
VersionLess(a, b) ==
    \/ TupleLess(a.release, b.release)
    \/ a.release = b.release /\ TupleLess(a.pre, b.pre)

VersionEq(a, b) == a.release = b.release /\ a.pre = b.pre

VersionLe(a, b) == VersionLess(a, b) \/ VersionEq(a, b)

----------------------------------------------------------------------------
(* re.search for the patterns the configurations use:                       *)
(*    <pre>(\d+\.\d+\.\d+)<post>   when grp is TRUE                         *)
(*    <pre><post>                  when grp is FALSE                        *)
(* with pre and post literal text.                                          *)

Pattern(pre, grp, post) == [pre |-> pre, grp |-> grp, post |-> post]

\* \d+\.\d+\.\d+
IsVer3(t) ==
    /\ IsRelease(t)
    /\ Cardinality({i \in 1..Len(t) : t[i] = "."}) = 2

\* the matches of pat in s: <<start, first char of the group, last char of it>>
MatchesAt(pat, s) ==
    IF pat.grp
    THEN LET starts == {i \in 1..Len(s) : StartsWithAt(s, i, pat.pre)}
         IN  UNION {{<<i, i + Len(pat.pre), j>> :
                        j \in {k \in (i + Len(pat.pre))..Len(s) :
                                 /\ IsVer3(SubSeq(s, i + Len(pat.pre), k))
                                 /\ StartsWithAt(s, k + 1, pat.post)}} :
                    i \in starts}
    ELSE {<<i, 0, 0>> : i \in {k \in 1..(Len(s) + 1) :
                                  StartsWithAt(s, k, pat.pre \o pat.post)}}

\* re.search: the leftmost match, its group taken greedily; None if no match
LeftmostGreedy(ms) ==
    IF ms = {} THEN None
    ELSE CHOOSE m \in ms :
            \A o \in ms : m[1] < o[1] \/ (m[1] = o[1] /\ m[3] >= o[3])

ReSearchOf(pat, s) == ByValue(LeftmostGreedy, MatchesAt(pat, s))

ReSearch(pat, s) == ByValue2(ReSearchOf, pat, s)

----------------------------------------------------------------------------
(* The functions of version_updater.py *)

NoFile == "NoFile"

\* os.path.exists on the modelled filesystem
Exists(f, path) == path \in DOMAIN f /\ f[path] # NoFile

\* an extraction that reads the name without asking whether the file exists
get_local_version_unchecked(f, file_path, version_pattern) ==
    LET match == ReSearch(version_pattern, Basename(file_path))
    IN  IF match = None THEN [raised |-> FALSE, value |-> None]
        ELSE IF ~version_pattern.grp THEN [raised |-> TRUE, value |-> None]
        ELSE [raised |-> FALSE,
              value |-> SubSeq(Basename(file_path), match[2], match[3])]

\* get_local_version(file_path, version_pattern): the captured text or None;
\* match.group(1) raises IndexError when the pattern has no group
get_local_version(f, file_path, version_pattern) ==
    IF ~Exists(f, file_path) THEN [raised |-> FALSE, value |-> None]
    ELSE LET match == ReSearch(version_pattern, Basename(file_path))
         IN  IF match = None THEN [raised |-> FALSE, value |-> None]
             ELSE IF ~version_pattern.grp THEN [raised |-> TRUE, value |-> None]
             ELSE [raised |-> FALSE,
                   value |-> SubSeq(Basename(file_path), match[2], match[3])]

\* find_asset_url's None
NoUrl == "None"

\* a scan that keeps going and returns the last match
RECURSIVE ScanAssetsLast(_, _)
ScanAssetsLast(assets, asset_pattern) ==
    IF Len(assets) = 0 THEN NoUrl
    ELSE IF ReSearch(asset_pattern, assets[Len(assets)].name) # None
         THEN assets[Len(assets)].browser_download_url
         ELSE ScanAssetsLast(SubSeq(assets, 1, Len(assets) - 1), asset_pattern)

\* find_asset_url(release, asset_pattern): scan release['assets'] in order
RECURSIVE ScanAssets(_, _)
ScanAssets(assets, asset_pattern) ==
    IF Len(assets) = 0 THEN NoUrl
    ELSE IF ReSearch(asset_pattern, Head(assets).name) # None
         THEN Head(assets).browser_download_url
         ELSE ScanAssets(Tail(assets), asset_pattern)

\* a lookup that takes the first asset whatever its name
find_asset_url_unfiltered(release, asset_pattern) ==
    IF Len(release.assets) = 0 THEN NoUrl
    ELSE release.assets[1].browser_download_url

find_asset_url(release, asset_pattern) ==
    ScanAssets(release.assets, asset_pattern)

\* release['tag_name'].lstrip('v')
remote_ver_str_of(release) == LStrip(release.tag_name, "v")

\* os.remove(path)
os_remove(f, path) == [f EXCEPT ![path] = NoFile]

\* a replace that copies the file and leaves the source in place
os_rename_copy(f, src, dst) == [f EXCEPT ![dst] = f[src]]

\* os.rename(src, dst)
os_rename(f, src, dst) == [f EXCEPT ![dst] = f[src], ![src] = NoFile]

\* a temporary name that is the local file's own name
TempOfNoSuffix(local_file) == local_file

\* temp_file = f"{local_file}.tmp"
TempOf(local_file) == local_file \o <<".", "t", "m", "p">>

----------------------------------------------------------------------------
(* The texts, configurations and releases the model draws from *)

TxtTool == <<"t", "o", "o", "l", "-">>
TxtApp == <<"a", "p", "p", "-">>
TxtZip == <<".", "z", "i", "p">>
TxtApk == <<".", "a", "p", "k">>
TxtDir == <<"d", "/">>
TxtNotes == <<"n", "o", "t", "e", "s", ".", "t", "x", "t">>
TxtLite == <<"l", "i", "t", "e">>
TxtLatest == <<"l", "a", "t", "e", "s", "t">>
TxtRc1 == <<"-", "r", "c", "1">>
TxtV == <<"v">>
V100 == <<"1", ".", "0", ".", "0">>
V120 == <<"1", ".", "2", ".", "0">>
V130 == <<"1", ".", "3", ".", "0">>
V299 == <<"2", ".", "9", ".", "9">>
V2100 == <<"2", ".", "1", "0", ".", "0">>
V320 == <<"3", ".", "2", ".", "0">>
V321 == <<"3", ".", "2", ".", "1">>

\* local files and the name a release gives the newer artifact
ToolFile == TxtTool \o V120 \o TxtZip
ToolNewFile == TxtTool \o V130 \o TxtZip
AppFile == TxtDir \o TxtApp \o V320 \o TxtApk

\* tool-(\d+\.\d+\.\d+)\.zip   app-(\d+\.\d+\.\d+)   \.apk
ToolPattern == Pattern(TxtTool, TRUE, TxtZip)
AppPattern == Pattern(TxtApp, TRUE, <<>>)
ApkPattern == Pattern(<<>>, FALSE, TxtApk)

Repo(keys, name, file, vpat, apat) ==
    [keys |-> keys, name |-> name, github_repo |-> "o/" \o name,
     local_file |-> file, version_pattern |-> vpat, asset_pattern |-> apat]

RepoTool ==
    Repo({"github_repo", "local_file", "version_pattern", "name"},
         "tool", ToolFile, ToolPattern, ToolPattern)
RepoApp ==
    Repo({"github_repo", "local_file", "version_pattern", "asset_pattern", "name"},
         "app", AppFile, AppPattern, ApkPattern)
\* an entry without the "name" key
RepoNoName ==
    Repo({"github_repo", "local_file", "version_pattern"},
         "tool", ToolFile, ToolPattern, ToolPattern)
\* an entry whose version_pattern does not match the name of its local file
RepoMismatch ==
    Repo({"github_repo", "local_file", "version_pattern", "name"},
         "other", ToolFile, AppPattern, AppPattern)

RepoPool == {RepoTool, RepoApp, RepoNoName, RepoMismatch}

Asset(name, url) == [name |-> name, browser_download_url |-> url]

Release(tag, assets) == [tag_name |-> tag, assets |-> assets]

NoRelease == Release(<<>>, <<>>)

Rel130 == Release(TxtV \o V130, <<Asset(ToolNewFile, "u1")>>)
RelVV130 == Release(TxtV \o TxtV \o V130, <<Asset(ToolNewFile, "u1")>>)
Rel321 ==
    Release(TxtV \o V321,
            <<Asset(TxtNotes, "u2"),
              Asset(TxtApp \o V321 \o TxtApk, "u3"),
              Asset(TxtTool \o V321 \o TxtZip, "u4"),
              Asset(TxtTool \o V321 \o TxtZip, "u5"),
              Asset(TxtApp \o TxtLite \o TxtApk, "u6")>>)
Rel120 == Release(V120, <<Asset(ToolFile, "u7")>>)
Rel120rc1 == Release(TxtV \o V120 \o TxtRc1, <<Asset(ToolFile, "u8")>>)
RelLatest == Release(TxtLatest, <<Asset(ToolNewFile, "u1")>>)
Rel2100 == Release(V2100, <<Asset(TxtNotes, "u2")>>)

Releases == {Rel130, RelVV130, Rel321, Rel120, Rel120rc1, RelLatest, Rel2100}

AllPaths == {ToolFile, TempOf(ToolFile), ToolNewFile, AppFile, TempOf(AppFile)}

\* the longest configuration the model loads
MaxRepos == 3

----------------------------------------------------------------------------
(* State *)

VARIABLES
    config_file,     \* repo.json on disk: "ok", "missing" or "malformed"
    config_doc,      \* the entries repo.json lists under "repositories"
    repositories,    \* main's list, assigned by load_repositories
    fs,              \* the filesystem: path -> content, NoFile when absent
    main_pc,         \* position of main: "start", "loop", "done"
    idx,             \* index of the repository whose turn it is (0: none yet)
    pc,              \* position of update_repository in the current turn
    bound,           \* the local variables of update_repository assigned so far
    local_ver,       \* version.parse(local_ver_str)
    release,         \* the release get_latest_release returned
    remote_ver_str,  \* release['tag_name'].lstrip('v')
    asset_url,       \* the result of find_asset_url
    results,         \* outcome of every finished turn: "True", "False", "raised"
    fetch_raised,    \* the turns whose release request raised
    calls,           \* the network and filesystem calls of the current turn
    reported,        \* number of errors main's handler reported
    fs0,             \* the filesystem when the current turn started
    fn_in,           \* input of the function under test (function specifications)
    fn_out           \* its result

vars == <<config_file, config_doc, repositories, fs, main_pc, idx, pc, bound,
          local_ver, release, remote_ver_str, asset_url, results, fetch_raised,
          calls, reported, fs0, fn_in, fn_out>>

fnvars == <<fn_in, fn_out>>

RECURSIVE SeqsUpTo(_, _)
SeqsUpTo(S, n) ==
    IF n = 0 THEN {<<>>}
    ELSE LET shorter == SeqsUpTo(S, n - 1)
         IN  shorter \cup {Append(q, x) : q \in {r \in shorter : Len(r) = n - 1}, x \in S}

\* the filesystems a run can start from: each local file present or absent,
\* a temporary file possibly left behind by an interrupted earlier run
InitialFs ==
    {[path \in AllPaths |->
         IF path \in present THEN "old"
         ELSE IF path \in left THEN "stale" ELSE NoFile] :
       present \in SUBSET {ToolFile, AppFile},
       left \in SUBSET {TempOf(ToolFile)}}

Init ==
    /\ config_file \in {"ok", "missing", "malformed"}
    /\ config_doc \in IF config_file = "missing" THEN {<<>>}
                      ELSE SeqsUpTo(RepoPool, MaxRepos)
    /\ repositories = <<>>
    /\ fs \in InitialFs
    /\ main_pc = "start"
    /\ idx = 0
    /\ pc = "idle"
    /\ bound = {}
    /\ local_ver = None
    /\ release = NoRelease
    /\ remote_ver_str = None
    /\ asset_url = NoUrl
    /\ results = <<>>
    /\ fetch_raised = {}
    /\ calls = <<>>
    /\ reported = 0
    /\ fs0 = fs
    /\ fn_in = <<>>
    /\ fn_out = <<>>

----------------------------------------------------------------------------
(* main and load_repositories *)

\* a loader that lets a malformed document through
load_repositories_raises_if_missing(file) == file = "missing"

\* load_repositories raises when repo.json is absent (FileNotFoundError) or
\* is not JSON (json.load raises)
load_repositories_raises(file) == file \in {"missing", "malformed"}

\* main, lines 108-111 and 119-120: load the configuration; a failure goes to
\* main's handler, which reports it and ends the run
MainLoad ==
    /\ main_pc = "start"
    /\ IF load_repositories_raises(config_file)
       THEN /\ reported' = reported + 1
            /\ main_pc' = "done"
            /\ UNCHANGED repositories
       ELSE /\ repositories' = config_doc
            /\ main_pc' = "loop"
            /\ UNCHANGED reported
    /\ UNCHANGED <<config_file, config_doc, fs, idx, pc, bound, local_ver,
                   release, remote_ver_str, asset_url, results, fetch_raised,
                   calls, fs0>>
    /\ UNCHANGED fnvars

\* the turn returns r to main: update_repository is over
Return(r) ==
    /\ pc' = "returned"
    /\ results' = Append(results, r)

\* the turn leaves update_repository with an exception
Raise ==
    /\ pc' = "raised"
    /\ results' = Append(results, "raised")

\* an exception raised inside the try block: control goes to the handler
ToExcept ==
    /\ pc' = "except"
    /\ UNCHANGED results

Call(kind, outcome) == [kind |-> kind, outcome |-> outcome]

\* the locals assigned by lines 53-57 before the first missing key stops them
BoundByLookups(keys) ==
    LET names == <<"repo", "local_file", "version_pattern", "asset_pattern", "repo_name">>
        needs == <<"github_repo", "local_file", "version_pattern", "", "name">>
        ok(i) == needs[i] = "" \/ needs[i] \in keys
    IN  {names[i] : i \in {k \in 1..5 : \A j \in 1..k : ok(j)}}

\* repo_config.get('asset_pattern', version_pattern)
AssetPatternOf(rc) ==
    IF "asset_pattern" \in rc.keys THEN rc.asset_pattern ELSE rc.version_pattern

\* main, lines 114-115, and update_repository, lines 52-67: the loop takes the
\* next repository and its turn runs up to the release request
Enter ==
    /\ main_pc = "loop"
    /\ pc \in {"idle", "returned"}
    /\ idx < Len(repositories)
    /\ idx' = idx + 1
    /\ fs0' = fs
    /\ release' = NoRelease
    /\ remote_ver_str' = None
    /\ asset_url' = NoUrl
    /\ calls' = <<>>
    /\ \E rc \in {repositories[idx + 1]} :
       \E lv \in {get_local_version(fs, rc.local_file, rc.version_pattern)} :
           /\ bound' = BoundByLookups(rc.keys)
           /\ IF "repo_name" \notin BoundByLookups(rc.keys)
              THEN ToExcept /\ local_ver' = None
              ELSE IF lv.raised
              THEN ToExcept /\ local_ver' = None
              ELSE IF lv.value = None
              THEN Return("False") /\ local_ver' = None
              ELSE /\ local_ver' = ParseVersion(lv.value)
                   /\ IF ParseVersion(lv.value) = None
                      THEN ToExcept
                      ELSE pc' = "fetch" /\ UNCHANGED results
    /\ UNCHANGED <<config_file, config_doc, repositories, fs, main_pc, reported,
                   fetch_raised>>
    /\ UNCHANGED fnvars

\* main, line 117: every repository had its turn
MainFinish ==
    /\ main_pc = "loop"
    /\ pc \in {"idle", "returned"}
    /\ idx = Len(repositories)
    /\ main_pc' = "done"
    /\ UNCHANGED <<config_file, config_doc, repositories, fs, idx, pc, bound, local_ver,
                   release, remote_ver_str, asset_url, results, fetch_raised,
                   calls, reported, fs0>>
    /\ UNCHANGED fnvars

\* a main without the handler: the exception is not caught and main does not
\* finish
MainNoHandler == FALSE /\ UNCHANGED vars

\* main, lines 119-120: an exception that left update_repository ends the loop
MainExcept ==
    /\ main_pc = "loop"
    /\ pc = "raised"
    /\ reported' = reported + 1
    /\ main_pc' = "done"
    /\ UNCHANGED <<config_file, config_doc, repositories, fs, idx, pc, bound, local_ver,
                   release, remote_ver_str, asset_url, results, fetch_raised,
                   calls, fs0>>
    /\ UNCHANGED fnvars

----------------------------------------------------------------------------
(* update_repository, after the local version was parsed *)

rc_now == repositories[idx]

\* a comparison that takes an equal remote version for a newer one
UpToDateStrict(remote, local) == VersionLess(remote, local)

\* line 77: remote_ver <= local_ver
UpToDate(remote, local) == VersionLe(remote, local)

\* a handler that never removes the temporary file
NeedsCleanupNever(b, f, temp_file) == FALSE

\* line 103: 'temp_file' in locals() and os.path.exists(temp_file)
NeedsCleanup(b, f, temp_file) == "temp_file" \in b /\ Exists(f, temp_file)

\* lines 69-90: request the latest release, derive and compare the versions,
\* resolve the asset and name the temporary file
Fetch ==
    /\ pc = "fetch"
    /\ \/ \* requests.get or raise_for_status raises
          /\ calls' = Append(calls, Call("release", "raise"))
          /\ fetch_raised' = fetch_raised \cup {idx}
          /\ ToExcept
          /\ UNCHANGED <<release, remote_ver_str, asset_url, bound>>
       \/ \E rel \in Releases :
            LET rvs == remote_ver_str_of(rel)
                remote_ver == ParseVersion(rvs)
                url == find_asset_url(rel, AssetPatternOf(rc_now))
            IN  /\ calls' = Append(calls, Call("release", "ok"))
                /\ UNCHANGED fetch_raised
                /\ release' = rel
                /\ remote_ver_str' = rvs
                /\ IF remote_ver = None
                   THEN ToExcept /\ UNCHANGED <<asset_url, bound>>
                   ELSE IF UpToDate(remote_ver[1], local_ver[1])
                   THEN Return("True") /\ UNCHANGED <<asset_url, bound>>
                   ELSE /\ asset_url' = url
                        /\ bound' = bound \cup {"release", "remote_ver_str", "asset_url"}
                                          \cup (IF url = NoUrl THEN {} ELSE {"temp_file"})
                        /\ IF url = NoUrl
                           THEN Return("False")
                           ELSE pc' = "download" /\ UNCHANGED results
    /\ UNCHANGED <<config_file, config_doc, repositories, fs, main_pc, idx,
                   local_ver, reported, fs0>>
    /\ UNCHANGED fnvars

\* line 90, download_file(asset_url, temp_file): the request is refused before
\* the file is opened, the stream breaks after part of it was written, or the
\* whole asset is written
Download ==
    /\ pc = "download"
    /\ \E outcome \in {"ok", "status", "interrupted"} :
          /\ calls' = Append(calls, Call("asset", outcome))
          /\ fs' = CASE outcome = "ok" ->
                          [fs EXCEPT ![TempOf(rc_now.local_file)] = asset_url]
                     [] outcome = "interrupted" ->
                          [fs EXCEPT ![TempOf(rc_now.local_file)] = "partial"]
                     [] outcome = "status" -> fs
          /\ IF outcome = "ok"
             THEN pc' = "remove" /\ UNCHANGED results
             ELSE ToExcept
    /\ UNCHANGED <<config_file, config_doc, repositories, main_pc, idx, bound, local_ver,
                   release, remote_ver_str, asset_url, reported, fetch_raised,
                   fs0>>
    /\ UNCHANGED fnvars

\* lines 94-95: remove the old file if there is one
Remove ==
    /\ pc = "remove"
    /\ IF Exists(fs, rc_now.local_file)
       THEN \/ /\ fs' = os_remove(fs, rc_now.local_file)
               /\ calls' = Append(calls, Call("remove", "ok"))
               /\ pc' = "rename"
               /\ UNCHANGED results
            \/ /\ calls' = Append(calls, Call("remove", "raise"))
               /\ ToExcept
               /\ UNCHANGED fs
       ELSE /\ pc' = "rename"
            /\ UNCHANGED <<fs, calls, results>>
    /\ UNCHANGED <<config_file, config_doc, repositories, main_pc, idx, bound, local_ver,
                   release, remote_ver_str, asset_url, reported, fetch_raised,
                   fs0>>
    /\ UNCHANGED fnvars

\* lines 96-99: rename the temporary file to local_file and return True
Rename ==
    /\ pc = "rename"
    /\ \/ /\ fs' = os_rename(fs, TempOf(rc_now.local_file), rc_now.local_file)
          /\ calls' = Append(calls, Call("rename", "ok"))
          /\ Return("True")
       \/ /\ calls' = Append(calls, Call("rename", "raise"))
          /\ ToExcept
          /\ UNCHANGED fs
    /\ UNCHANGED <<config_file, config_doc, repositories, main_pc, idx, bound, local_ver,
                   release, remote_ver_str, asset_url, reported, fetch_raised,
                   fs0>>
    /\ UNCHANGED fnvars

\* lines 101-105, the handler: the message needs repo_name (a NameError when
\* it was never assigned); the temporary file is removed if temp_file was
\* assigned and the file exists; the result is False
Except ==
    /\ pc = "except"
    /\ IF "repo_name" \notin bound
       THEN Raise /\ UNCHANGED <<fs, calls>>
       ELSE IF NeedsCleanup(bound, fs, TempOf(rc_now.local_file))
       THEN \/ /\ fs' = os_remove(fs, TempOf(rc_now.local_file))
               /\ calls' = Append(calls, Call("cleanup", "ok"))
               /\ Return("False")
            \/ /\ calls' = Append(calls, Call("cleanup", "raise"))
               /\ Raise
               /\ UNCHANGED fs
       ELSE Return("False") /\ UNCHANGED <<fs, calls>>
    /\ UNCHANGED <<config_file, config_doc, repositories, main_pc, idx, bound, local_ver,
                   release, remote_ver_str, asset_url, reported, fetch_raised,
                   fs0>>
    /\ UNCHANGED fnvars

Next ==
    \/ MainLoad
    \/ Enter
    \/ Fetch
    \/ Download
    \/ Remove
    \/ Rename
    \/ Except
    \/ MainFinish
    \/ MainExcept

Spec == Init /\ [][Next]_vars

----------------------------------------------------------------------------
(* Properties of a batch run *)

LastResult == results[Len(results)]

\* the turn of repository idx is over and update_repository returned a value
TurnReturned == idx > 0 /\ pc = "returned"

CallMade(kind, outcome) ==
    \E i \in 1..Len(calls) : calls[i] = Call(kind, outcome)

DownloadFailed == CallMade("asset", "status") \/ CallMade("asset", "interrupted")

DownloadStarted ==
    pc = "download" \/ CallMade("asset", "ok") \/ DownloadFailed

LocalNow == repositories[idx].local_file

FilesOnDisk(f) == {path \in AllPaths : Exists(f, path)}

\* C1: every error raised inside a turn is caught in update_repository and
\* becomes a False result; no exception leaves update_repository, so main
\* gives every configured repository its turn.
C1_NoErrorEscapes ==
    /\ pc # "raised"
    /\ \A i \in 1..Len(results) : results[i] \in {"True", "False"}
    /\ (main_pc = "done" /\ config_file = "ok")
          => Len(results) = Len(repositories)

\* C2: when the release request of one repository raises, that turn returns
\* False and main still runs and completes the turn of every other repository.
C2_FetchFailureIsolated ==
    /\ \A i \in fetch_raised : i <= Len(results) => results[i] = "False"
    /\ (main_pc = "done" /\ fetch_raised # {})
          => /\ Len(results) = Len(repositories)
             /\ \A i \in 1..Len(results) : results[i] \in {"True", "False"}

\* C3: when the asset download failed, then at the return of update_repository
\* no file is at <local_file>.tmp and local_file holds what it held when the
\* turn started; the local file changes only after a download that succeeded.
C3_FailedDownloadLeavesNoTrace ==
    /\ (TurnReturned /\ DownloadFailed)
          => /\ ~Exists(fs, TempOf(LocalNow))
             /\ fs[LocalNow] = fs0[LocalNow]
             /\ LastResult = "False"
    /\ (idx > 0 /\ "local_file" \in bound /\ fs[LocalNow] # fs0[LocalNow])
          => CallMade("asset", "ok")

C3_Witness ==
    /\ TurnReturned
    /\ CallMade("asset", "interrupted")
    /\ CallMade("cleanup", "ok")
    /\ Exists(fs, LocalNow)

\* C4: with both versions parsed, the asset download starts exactly when the
\* remote version is strictly greater than the local one and an asset matches;
\* otherwise, when the remote version is not greater, the turn returns True
\* with no asset resolved, no download, no temporary file and no file changed.
C4_DownloadIffNewer ==
    /\ (idx > 0 /\ release = NoRelease) => ~DownloadStarted
    /\ (idx > 0 /\ release # NoRelease /\ ParseVersion(remote_ver_str) # None)
          => LET remote == ParseVersion(remote_ver_str)[1]
                 local == local_ver[1]
                 pat == AssetPatternOf(repositories[idx])
                 matches == \E i \in 1..Len(release.assets) :
                               ReSearch(pat, release.assets[i].name) # None
             IN  /\ DownloadStarted <=> (VersionLess(local, remote) /\ matches)
                 /\ ~VersionLess(local, remote)
                       => /\ TurnReturned
                          /\ LastResult = "True"
                          /\ asset_url = NoUrl
                          /\ calls = <<Call("release", "ok")>>
                          /\ fs = fs0

C4_Witness ==
    /\ TurnReturned
    /\ release = Rel120
    /\ repositories[idx] = RepoTool
    /\ LastResult = "True"

\* C5: local file tool-1.2.0.zip, latest release v1.3.0 with the asset
\* tool-1.3.0.zip: after the successful turn the directory holds only a file
\* named tool-1.3.0.zip, with the bytes of the asset, and no .tmp remnant.
C5_EndToEnd ==
    (/\ TurnReturned
     /\ repositories = <<RepoTool>>
     /\ FilesOnDisk(fs0) = {ToolFile}
     /\ release = Rel130
     /\ LastResult = "True")
       => /\ FilesOnDisk(fs) = {ToolNewFile}
          /\ fs[ToolNewFile] = "u1"

\* C6 as stated: after update_repository returns, whatever the outcome and
\* whatever the filesystem held when the turn started, no file is at
\* <local_file>.tmp.
C6_NoTempAfterReturn ==
    TurnReturned => ~Exists(fs, TempOf(LocalNow))

\* C6 amended: after update_repository returns, no file is at <local_file>.tmp
\* if the turn reached the download step or no such file existed when the turn
\* started; a turn that returned True after a download has renamed the
\* temporary file onto local_file.
C6_NoTempAfterDownloadStep ==
    TurnReturned =>
       /\ ("temp_file" \in bound \/ ~Exists(fs0, TempOf(LocalNow)))
             => ~Exists(fs, TempOf(LocalNow))
       /\ ("temp_file" \in bound /\ LastResult = "True")
             => fs[LocalNow] = asset_url

C6_Witness ==
    /\ TurnReturned
    /\ "temp_file" \in bound
    /\ Exists(fs0, TempOf(LocalNow))
    /\ LastResult = "False"
    /\ ~Exists(fs, TempOf(LocalNow))

\* a single leading "v" removed if present
StripOneV(tag) == IF Len(tag) > 0 /\ tag[1] = "v" THEN Tail(tag) ELSE tag

\* C7: the remote version string is the tag name with exactly one leading "v"
\* removed if there is one, and the tag unchanged otherwise.
C7_SingleVStripped ==
    (idx > 0 /\ release # NoRelease) => remote_ver_str = StripOneV(release.tag_name)

\* C9: when loading the configuration fails, no repository gets a turn, no
\* request is made, no file changes and main reports the error exactly once.
C9_LoadFailureAbortsRun ==
    config_file # "ok" =>
       /\ idx = 0 /\ pc = "idle" /\ results = <<>>
       /\ calls = <<>>
       /\ fs = fs0
       /\ main_pc = "done" => reported = 1
       /\ main_pc # "done" => reported = 0

C9_Witness ==
    /\ config_file = "malformed"
    /\ Len(config_doc) > 0
    /\ main_pc = "done"

----------------------------------------------------------------------------
(* find_asset_url and the version comparison on their own: the inputs are  *)
(* drawn from bounded sets and one action applies the function             *)

\* the longest asset list find_asset_url is applied to
MaxAssets == 3

AssetPool ==
    {Asset(TxtNotes, "u2"), Asset(ToolNewFile, "u1"),
     Asset(TxtTool \o V321 \o TxtZip, "u4"), Asset(TxtApp \o V321 \o TxtApk, "u3")}

VersionStrings ==
    {V100, V100 \o TxtRc1, V100 \o <<"r", "c", "2">>, <<"1", ".", "0">>,
     V120, TxtV \o V130, V299, V2100, V320, V120 \o <<".", "b", "1">>}

\* no batch run takes place while a function is applied on its own
NoRun ==
    /\ config_file = "missing"
    /\ config_doc = <<>>
    /\ repositories = <<>>
    /\ fs = [path \in AllPaths |-> NoFile]
    /\ main_pc = "done"
    /\ idx = 0
    /\ pc = "idle"
    /\ bound = {}
    /\ local_ver = None
    /\ release = NoRelease
    /\ remote_ver_str = None
    /\ asset_url = NoUrl
    /\ results = <<>>
    /\ fetch_raised = {}
    /\ calls = <<>>
    /\ reported = 0
    /\ fs0 = fs

runvars == <<config_file, config_doc, repositories, fs, main_pc, idx, pc, bound,
             local_ver, release, remote_ver_str, asset_url, results,
             fetch_raised, calls, reported, fs0>>

InitAssets ==
    /\ NoRun
    /\ fn_in \in {[release |-> Release(TxtV \o V130, a), asset_pattern |-> pat] :
                     a \in SeqsUpTo(AssetPool, MaxAssets),
                     pat \in {ToolPattern, ApkPattern}}
    /\ fn_out = <<>>

ApplyFindAssetUrl ==
    /\ fn_out = <<>>
    /\ fn_out' = <<find_asset_url(fn_in.release, fn_in.asset_pattern)>>
    /\ UNCHANGED fn_in
    /\ UNCHANGED runvars

SpecAssets == InitAssets /\ [][ApplyFindAssetUrl]_vars

\* the comparisons update_repository can ask of two parsed versions
Compare(a, b) ==
    LET x == ParseVersion(a)[1]
        y == ParseVersion(b)[1]
    IN  [lt |-> VersionLess(x, y), eq |-> VersionEq(x, y),
         gt |-> VersionLess(y, x), le |-> VersionLe(x, y)]

InitVersions ==
    /\ NoRun
    /\ fn_in \in VersionStrings \X VersionStrings \X VersionStrings
    /\ fn_out = <<>>

ApplyCompare ==
    /\ fn_out = <<>>
    /\ fn_out' = <<[ab |-> Compare(fn_in[1], fn_in[2]),
                    bc |-> Compare(fn_in[2], fn_in[3]),
                    ac |-> Compare(fn_in[1], fn_in[3])]>>
    /\ UNCHANGED fn_in
    /\ UNCHANGED runvars

SpecVersions == InitVersions /\ [][ApplyCompare]_vars

\* C8: find_asset_url returns the download URL of the first asset, in listed
\* order, whose name matches the pattern, also when several match, and None
\* when the list is empty or no name matches.
C8_FirstMatchWins ==
    fn_out # <<>> =>
       LET assets == fn_in.release.assets
           m(i) == ReSearch(fn_in.asset_pattern, assets[i].name) # None
       IN  IF \E i \in 1..Len(assets) : m(i)
           THEN \E i \in 1..Len(assets) :
                   /\ m(i)
                   /\ \A j \in 1..(i - 1) : ~m(j)
                   /\ fn_out[1] = assets[i].browser_download_url
           ELSE fn_out[1] = NoUrl

C8_Witness ==
    /\ fn_out = <<"u4">>
    /\ fn_in.release.assets =
          <<Asset(TxtNotes, "u2"), Asset(TxtTool \o V321 \o TxtZip, "u4"),
            Asset(ToolNewFile, "u1")>>

ExactlyOne(c) ==
    /\ c.lt \/ c.eq \/ c.gt
    /\ ~(c.lt /\ c.eq) /\ ~(c.lt /\ c.gt) /\ ~(c.eq /\ c.gt)

\* C10: the comparison is a total order on version strings: exactly one of
\* less, equal, greater holds for any two, <= is "not greater" and is
\* transitive; numeric segments compare as numbers (2.10.0 > 2.9.9), equal
\* strings are equal, and a pre-release is below its release (1.0.0-rc1 < 1.0.0).
C10_TotalOrderOnVersions ==
    fn_out # <<>> =>
       LET r == fn_out[1]
       IN  /\ ExactlyOne(r.ab) /\ ExactlyOne(r.bc) /\ ExactlyOne(r.ac)
           /\ r.ab.le <=> ~r.ab.gt
           /\ (r.ab.le /\ r.bc.le) => r.ac.le
           /\ (r.ab.eq /\ r.bc.eq) => r.ac.eq
           /\ (fn_in[1] = V2100 /\ fn_in[2] = V299) => r.ab.gt
           /\ fn_in[1] = fn_in[2] => r.ab.eq
           /\ (fn_in[1] = V100 \o TxtRc1 /\ fn_in[2] = V100) => r.ab.lt

C10_Witness ==
    /\ fn_out # <<>>
    /\ fn_in = <<V100 \o TxtRc1, V100, V2100>>
    /\ fn_out[1].ab.lt /\ fn_out[1].bc.lt

----------------------------------------------------------------------------
(* Properties of the replace step, the early exits and the order of steps *)

TurnOver == idx > 0 /\ pc \in {"returned", "raised"}

\* C11: a local file that existed when the turn started still exists when
\* update_repository is left, except in one case, where it is missing: the
\* removal of the old file succeeded and the rename then failed.
C11_LocalFileKept ==
    (TurnOver /\ "local_file" \in bound /\ Exists(fs0, LocalNow))
       => (~Exists(fs, LocalNow)
              <=> (CallMade("remove", "ok") /\ CallMade("rename", "raise")))

C11_Witness ==
    /\ TurnReturned
    /\ Exists(fs0, LocalNow)
    /\ ~Exists(fs, LocalNow)
    /\ CallMade("rename", "raise")
    /\ LastResult = "False"

\* C12: when no local version can be extracted (no file at local_file, or its
\* base name does not match version_pattern), update_repository returns False
\* with no release request, no download and no file created, changed or
\* deleted; the turn ends by returning, so the next repository gets its turn.
C12_NoLocalVersion ==
    (/\ idx > 0
     /\ "repo_name" \in bound
     /\ \/ ~Exists(fs0, LocalNow)
        \/ ReSearch(repositories[idx].version_pattern, Basename(LocalNow)) = None)
       => /\ TurnReturned
          /\ LastResult = "False"
          /\ calls = <<>>
          /\ release = NoRelease
          /\ fs = fs0

C12_Witness ==
    /\ TurnReturned
    /\ repositories[idx] = RepoTool
    /\ ~Exists(fs0, ToolFile)
    /\ LastResult = "False"
    /\ idx < Len(repositories)

\* C13: when the remote version is strictly newer and no asset name matches
\* asset_pattern (version_pattern when asset_pattern is not configured),
\* update_repository returns False with no download, no temporary file
\* created and the local file as it was.
C13_NoMatchingAsset ==
    (idx > 0 /\ release # NoRelease /\ ParseVersion(remote_ver_str) # None)
       => LET rc == repositories[idx]
              pat == IF "asset_pattern" \in rc.keys
                     THEN rc.asset_pattern ELSE rc.version_pattern
              nomatch == \A i \in 1..Len(release.assets) :
                            ReSearch(pat, release.assets[i].name) = None
          IN  (VersionLess(local_ver[1], ParseVersion(remote_ver_str)[1]) /\ nomatch)
                 => /\ TurnReturned
                    /\ LastResult = "False"
                    /\ calls = <<Call("release", "ok")>>
                    /\ "temp_file" \notin bound
                    /\ fs = fs0

C13_Witness ==
    /\ TurnReturned
    /\ repositories[idx] = RepoTool
    /\ release = Rel2100
    /\ LastResult = "False"
    /\ fs[ToolFile] = "old"

CallsOfKind(kind) == {i \in 1..Len(calls) : calls[i].kind = kind}

\* the order of the steps inside a turn and of the turns inside the pass:
\* at most one release request and one download per turn, the request only
\* with a local version, the download only after a successful request and a
\* resolved asset, remove and rename only after a completed download; turns
\* are taken one by one in the order of the list
StepOrder ==
    /\ Cardinality(CallsOfKind("release")) <= 1
    /\ Cardinality(CallsOfKind("asset")) <= 1
    /\ \A i \in CallsOfKind("release") : i = 1 /\ local_ver # None
    /\ \A i \in CallsOfKind("asset") :
          /\ i = 2
          /\ calls[1] = Call("release", "ok")
          /\ asset_url # NoUrl
    /\ \A i \in CallsOfKind("remove") \cup CallsOfKind("rename") :
          \E j \in 1..(i - 1) : calls[j] = Call("asset", "ok")
    /\ idx <= Len(repositories)
    /\ Len(results) = IF pc \in {"returned", "raised"} THEN idx
                      ELSE IF idx = 0 THEN 0 ELSE idx - 1

\* C14: in one pass the turns run one after another in the order of the
\* list and every configured repository gets exactly one turn; inside a turn
\* the steps keep their order and no request or download is repeated.
C14_OneOrderedTurnEach ==
    /\ StepOrder
    /\ (main_pc = "done" /\ config_file = "ok")
          => /\ idx = Len(repositories)
             /\ Len(results) = Len(repositories)

----------------------------------------------------------------------------
(* Termination: the program is sequential and every network or filesystem  *)
(* call returns or raises, so a step that can be taken is taken            *)

\* the longest configuration of the termination runs
MaxLiveRepos == 2

LiveInit == Init /\ Len(config_doc) <= MaxLiveRepos

LiveSpec == LiveInit /\ [][Next]_vars /\ WF_vars(Next)

\* C15: whatever the configuration and the outcome of every step, the run
\* makes one pass and main finishes normally: it reaches its end, after at
\* most one turn per configured repository, and stays there.
C15_MainFinishes ==
    <>[](/\ main_pc = "done"
         /\ pc \in {"idle", "returned", "raised"}
         /\ Len(results) <= Len(repositories))

\* a run that ended through main's handler after a turn raised
C15_Witness ==
    /\ main_pc = "done"
    /\ config_file = "ok"
    /\ pc = "raised"
    /\ CallMade("cleanup", "raise")
    /\ reported = 1

----------------------------------------------------------------------------
(* The file name as the version record *)

\* the version the name of the local file records, as the next turn reads it
RecordedVersion == get_local_version(fs, LocalNow, rc_now.version_pattern)

\* the local file at the start of the turn holds the bytes of an asset of the
\* release this turn sees
HoldsThisRelease ==
    /\ Exists(fs0, LocalNow)
    /\ \E i \in 1..Len(release.assets) :
          release.assets[i].browser_download_url = fs0[LocalNow]

\* C16: after a turn that downloaded and replaced the local file, the version
\* read from the local file's name equals the remote release version, and a
\* turn that starts with the file of the latest release already in place
\* downloads nothing.
C16_NameRecordsVersion ==
    /\ (TurnReturned /\ LastResult = "True" /\ CallMade("rename", "ok"))
          => /\ ~RecordedVersion.raised
             /\ RecordedVersion.value # None
             /\ VersionEq(ParseVersion(RecordedVersion.value)[1],
                          ParseVersion(remote_ver_str)[1])
    /\ (idx > 0 /\ HoldsThisRelease) => ~DownloadStarted

============================================================================
